---------------------------- MODULE Spec2Model ----------------------------
(***************************************************************************)
(* Model of the resilient multi-model invocation layer of speakkid         *)
(* (src/services/geminiService.ts): the settings accessors, the model      *)
(* fallback resolver, the timeout guard and callWithRetry; of the service  *)
(* builders that run on it, with the score normalisation of the evaluator  *)
(* and the audio decoding of the voice; and of the handlers of             *)
(* src/App.tsx: settings, generation, teacher voice, recording, evaluation.*)
(*                                                                         *)
(* Strings of the source are modelled as sequences of tokens; a substring  *)
(* test is a test for a token.  Vietnamese text is written without         *)
(* diacritics.  Durations are counted in ticks of 1/16 ms so that the      *)
(* repeated multiplication by 2.5 stays exact.                             *)
(***************************************************************************)
EXTENDS Integers, Sequences, FiniteSets, TLC

(***************************************************************************)
(* Bounds of the model                                                     *)
(***************************************************************************)
MaxRetries == 3

RetryLimits == 0..MaxRetries

(***************************************************************************)
(* Values                                                                  *)
(***************************************************************************)
Null == "<null>"

NoStatus == 0

Values == {"v1", "v2"}

TicksPerMs == 2 * 2 * 2 * 2

Ms(n) == n * TicksPerMs

Last(s) == s[Len(s)]

(***************************************************************************)
(* Settings store (localStorage) and its accessors                         *)
(***************************************************************************)
FALLBACK_MODELS == <<"gemini-3-flash-preview", "gemini-3-pro-preview", "gemini-2.5-flash">>

DefaultModel == "gemini-3-flash-preview"

StoredKeys == {Null, "AIza-key"}

LegacyModel == "gemini-1.5-pro"

StoredModels == {Null, "gemini-2.5-flash", LegacyModel}

PoolSet == {FALLBACK_MODELS[i] : i \in DOMAIN FALLBACK_MODELS}

\* every value the selected_model entry is given: absent, empty, a pool
\* member, an identifier of an earlier release
AllStoredModels == {Null, "", LegacyModel} \cup PoolSet

\* every identifier a candidate list can hold
ModelIds == PoolSet \cup (AllStoredModels \ {Null})

\* x || d
OrElse(x, d) == IF x = Null \/ x = "" THEN d ELSE x

MissingCredentialError ==
  [message |-> <<"CHUA CO API KEY:", "Be vui long nhan nut Settings de nhap API Key nhe!">>,
   status |-> NoStatus]

\* getApiKey(): the key, or Null when the call throws MissingCredentialError
getApiKey(st) == LET key == OrElse(st.gemini_api_key, "") IN IF key = "" THEN Null ELSE key

\* variant: only an absent value falls back to the default (?? for ||)
getSelectedModel_NullOnly(st) ==
  IF st.selected_model = Null THEN DefaultModel ELSE st.selected_model

getSelectedModel(st) == OrElse(st.selected_model, DefaultModel)

\* variant: the pool is appended unfiltered
getFallbackModels_NoFilter(st) == <<getSelectedModel(st)>> \o FALLBACK_MODELS

\* variant: a selection outside the pool is dropped
getFallbackModels_PoolOnly(st) ==
  LET primary == getSelectedModel(st)
      Other(m) == m # primary
      others == SelectSeq(FALLBACK_MODELS, Other)
  IN IF Len(others) < Len(FALLBACK_MODELS) THEN <<primary>> \o others ELSE FALLBACK_MODELS

getFallbackModels(st) ==
  LET primary == getSelectedModel(st)
      Other(m) == m # primary
      others == SelectSeq(FALLBACK_MODELS, Other)
  IN <<primary>> \o others

(***************************************************************************)
(* Errors and their classification                                         *)
(***************************************************************************)
\* errors the generative service rejects a request with
E429 == [message |-> <<>>, status |-> 429]

EQuota == [message |-> <<"You", "exceeded", "your", "current", "Quota">>, status |-> NoStatus]

EResourceExhausted == [message |-> <<"RESOURCE_EXHAUSTED">>, status |-> NoStatus]

EOther == [message |-> <<"Failed", "to", "fetch">>, status |-> 500]

ServiceErrors == {E429, EQuota, EResourceExhausted, EOther}

TimeoutMs == 60000

\* variant: the rejection names the default label and no deadline
TimeoutError_NoLabel(label, ms) ==
  [message |-> <<"API call", "qua thoi gian", "Be hay thu lai nhe!">>, status |-> NoStatus]

\* the rejection of withTimeout's timer: label `Model ${model}`, Math.round(ms / 1000)
TimeoutError(label, ms) ==
  [message |-> <<"Model", label, "qua thoi gian", ToString(ms \div 1000), "s", "Be hay thu lai nhe!">>,
   status |-> NoStatus]

toLowerCase(str) ==
  [i \in DOMAIN str |->
     CASE str[i] = "RESOURCE_EXHAUSTED" -> "resource_exhausted"
       [] str[i] = "Quota" -> "quota"
       [] str[i] = "Model" -> "model"
       [] str[i] = "You" -> "you"
       [] str[i] = "Failed" -> "failed"
       [] str[i] = "Unexpected" -> "unexpected"
       [] str[i] = "JSON" -> "json"
       [] OTHER -> str[i]]

includes(str, tok) == \E i \in DOMAIN str : str[i] = tok

JSONstringify(err) ==
  IF err.status # NoStatus THEN <<"{status:", ToString(err.status), "}">> ELSE <<"{}">>

\* err?.message || JSON.stringify(err)
errMsgOf(err) == IF err.message # <<>> THEN err.message ELSE JSONstringify(err)

errorStr(err) == toLowerCase(errMsgOf(err))

isQuotaError(err) ==
  \/ err.status = 429
  \/ includes(errorStr(err), "quota")
  \/ includes(errorStr(err), "resource_exhausted")

isTimeoutError(err) == includes(errorStr(err), "qua thoi gian")

AggregatePrefix == <<"TAT CA MODEL DEU LOI:">>

AggregateSuffix == <<"Be hay kiem tra API Key hoac cho 30 giay roi thu lai nhe!">>

\* the terminal error of callWithRetry; lastError is <<>> (undefined) or <<err>>
AggregateError(lastError) ==
  LET errMsg == IF lastError = <<>> THEN <<"undefined">> ELSE errMsgOf(lastError[1])
  IN [message |-> AggregatePrefix \o errMsg \o AggregateSuffix, status |-> NoStatus]

(***************************************************************************)
(* The service builders                                                    *)
(***************************************************************************)
\* the functions that run their request under callWithRetry
Builders ==
  {"generateImagePrompt", "generatePresentationScript", "generateScriptFromImage",
   "generateTeacherVoice", "evaluatePresentation"}

ScriptBuilders == {"generatePresentationScript", "generateScriptFromImage"}

TTSModel == "gemini-2.5-flash-preview-tts"

\* texts the service answers a request with
ScriptJson ==
  "{\"intro\":\"Hi\",\"points\":[\"It is big\"],\"conclusion\":\"Bye\",\"lessonVocab\":[{\"word\":\"kite\"}]}"

TruncatedJson == "{\"intro\":\"Hi\",\"points\":["

ScoresJson ==
  "{\"pronunciation\":9,\"fluency\":0.8,\"intonation\":7,\"vocabulary\":9,\"grammar\":85,\"taskFulfillment\":10}"

PromptText == " A red kite in the sky "

\* lines 548 and 617: the text parsed when the response has none
DefaultScriptJson == "{\"intro\":\"\", \"points\":[], \"conclusion\":\"\", \"lessonVocab\":[]}"

\* line 720: the text parsed when the response has none
EmptyObjectJson == "{}"

\* line 480: the prompt returned when the response has no text
DefaultPrompt == "A professional cinematic 3D Pixar style illustration of ${theme}"

DefaultScript == [intro |-> "", points |-> <<>>, conclusion |-> "", lessonVocab |-> <<>>]

\* JSON.parse(ScriptJson)
ParsedScript ==
  [intro |-> "Hi", points |-> <<"It is big">>, conclusion |-> "Bye",
   lessonVocab |-> <<[word |-> "kite"]>>]

\* the audio data of a synthesis response (base64)
AudioData == {"UklGRg==", "AAAAAA=="}

\* lines 633-634: the buffer decoded from the audio data of the response
AudioBuffer(data) == [sampleRate |-> 24000, numChannels |-> 1, data |-> data]

\* what JSON.parse throws
SyntaxError == [message |-> <<"Unexpected", "end", "of", "JSON", "input">>, status |-> NoStatus]

\* what atob throws (decode, line 763) when the response carries no audio
InvalidCharacterError ==
  [message |-> <<"Failed", "to", "execute", "atob">>, status |-> NoStatus]

\* how a piece of code completes: it returns a value or throws an error
Thrown(err) == [ok |-> FALSE, value |-> <<>>, error |-> <<err>>]

Returned(v) == [ok |-> TRUE, value |-> <<v>>, error |-> <<>>]

trim(str) ==
  CASE str = PromptText -> "A red kite in the sky"
    [] str = " AIza-new " -> "AIza-new"
    [] str = "   " -> ""
    [] OTHER -> str

(***************************************************************************)
(* Score normalisation of the evaluator.  A raw score is what JSON.parse   *)
(* leaves in a field of the response: nothing, null, a text that is not a  *)
(* number, or a number, counted here in thousandths.  Numbers inside       *)
(* normalize are fractions num/den; normalized scores are counted in       *)
(* tenths.                                                                 *)
(***************************************************************************)
Dimensions ==
  {"pronunciation", "fluency", "intonation", "vocabulary", "grammar", "taskFulfillment"}

RawDen == 1000

Undefined == [t |-> "undefined", n |-> 0]

NullValue == [t |-> "null", n |-> 0]

NotANumber == [t |-> "NaN", n |-> 0]

Num(n) == [t |-> "number", n |-> n]

\* the raw value of a score of k tenths
Tenths(k) == Num(k * (RawDen \div 10))

Frac(num, den) == [num |-> num, den |-> den]

\* variant: a value on the 0-1 scale is left as it is
Upscale_None(v) == v

\* line 730: if (v > 0 && v < 1) v = v * 10
Upscale(v) == IF v.num > 0 /\ v.num < v.den THEN Frac(v.num * 10, v.den) ELSE v

\* variant: if (v >= 10) v = v / 10
Downscale_FromTen(v) == IF v.num >= 10 * v.den THEN Frac(v.num, v.den * 10) ELSE v

\* line 732: if (v > 10) v = v / 10
Downscale(v) == IF v.num > 10 * v.den THEN Frac(v.num, v.den * 10) ELSE v

\* Math.round(v * 10): floor(v * 10 + 1/2).  A product that lies exactly half
\* way in decimal is not exact in binary floating point and is rounded to
\* either neighbour.
MathRound10(v) ==
  LET up == (20 * v.num + v.den) \div (2 * v.den)
  IN IF (20 * v.num + v.den) % (2 * v.den) = 0 THEN {up - 1, up} ELSE {up}

\* variant: the rounded value is not clamped
Clamp_None(k) == k

\* line 734: Math.min(10, Math.max(0, .)), in tenths
Clamp(k) == IF k < 0 THEN 0 ELSE IF k > 100 THEN 100 ELSE k

\* lines 725-735: the values normalize(val) can return, in tenths
normalize(val) ==
  IF val.t \in {"undefined", "null"} THEN {0}
  ELSE IF val.t = "NaN" THEN {0}
  ELSE {Clamp(k) : k \in MathRound10(Downscale(Upscale(Frac(val.n, RawDen))))}

\* variant: the mean is truncated to one decimal
RoundMean_Truncate(sum) == {(10 * sum) \div 60}

\* lines 748-749: Math.round(avg * 10) / 10 for avg = sum / 6, sum and result in
\* tenths; a mean that lies exactly half way is rounded to either neighbour
RoundMean(sum) ==
  LET up == (2 * sum + 6) \div 12
  IN IF (2 * sum + 6) % 12 = 0 THEN {up - 1, up} ELSE {up}

SumOf(sc) ==
  sc.pronunciation + sc.fluency + sc.intonation + sc.vocabulary + sc.grammar + sc.taskFulfillment

\* lines 737-744: the objects `scores` can be for the parsed response raw
NormalizedScores(raw) ==
  {[pronunciation |-> p, fluency |-> f, intonation |-> i, vocabulary |-> v, grammar |-> g,
    taskFulfillment |-> t] :
     p \in normalize(raw.pronunciation), f \in normalize(raw.fluency),
     i \in normalize(raw.intonation), v \in normalize(raw.vocabulary),
     g \in normalize(raw.grammar), t \in normalize(raw.taskFulfillment)}

\* lines 737-758: the score fields of the results the evaluator can return
Evaluations(raw) ==
  UNION {{[scores |-> sc, score |-> s] : s \in RoundMean(SumOf(sc))} : sc \in NormalizedScores(raw)}

\* JSON.parse('{}'): no field is present
EmptyObject == [d \in Dimensions |-> Undefined]

\* the levels of CEFRLevel (types.ts line 2) the lessons are made for
LevelNames == <<"Starters", "Movers", "Flyers">>

\* a text value that names a level: LevelNames[k]
Str(k) == [t |-> "string", n |-> k]

\* fields of the response beside the six dimensions: two that the result
\* computes itself and one that it only passes on
OtherFields == {"score", "perceivedLevel", "feedback"}

\* variant: the fields of the first object win
Spread_FirstWins(a, b) ==
  [f \in DOMAIN a \cup DOMAIN b |->
     IF f \in DOMAIN a /\ (f \notin DOMAIN b \/ a[f] # Undefined) THEN a[f] ELSE b[f]]

\* { ...a, ...b } (lines 751-753), a field that is not there being Undefined:
\* the fields of b replace the fields of a
Spread(a, b) ==
  [f \in DOMAIN a \cup DOMAIN b |->
     IF f \in DOMAIN b /\ (f \notin DOMAIN a \/ b[f] # Undefined) THEN b[f] ELSE a[f]]

\* lines 751-758: the result object over the raw response; numbers are
\* thousandths as in the response (keyVocabulary and evaluationDate, which no
\* response field is read for, are left out)
Result(raw, e, level) ==
  Spread(Spread(raw, [d \in Dimensions |-> Tenths(e.scores[d])]),
         [score |-> Tenths(e.score), perceivedLevel |-> Str(level)])

\* the response as one object
RawObject(dims, other) ==
  [f \in Dimensions \cup OtherFields |-> IF f \in Dimensions THEN dims[f] ELSE other[f]]

NoEvaluation ==
  [pc |-> "none", raw |-> EmptyObject, scores |-> [d \in Dimensions |-> 0], score |-> 0,
   other |-> [f \in OtherFields |-> Undefined], level |-> 1, result |-> <<>>]

(***************************************************************************)
(* What a builder makes of the response to its request                     *)
(***************************************************************************)
JSONparse(text) ==
  CASE text = ScriptJson -> Returned(ParsedScript)
    [] text = DefaultScriptJson -> Returned(DefaultScript)
    [] text = EmptyObjectJson -> Returned(EmptyObject)
    [] text = ScoresJson ->
         Returned([pronunciation |-> Num(9000), fluency |-> Num(800), intonation |-> Num(7000),
                   vocabulary |-> Num(9000), grammar |-> Num(85000),
                   taskFulfillment |-> Num(10000)])
    [] OTHER -> Thrown(SyntaxError)

NoResponse == [text |-> Null, audio |-> Null]

\* the responses the service gives to the request of a builder: without text,
\* with an empty text, with the text asked for, with a text cut short; for the
\* synthesizer without or with audio data
Responses(fn) ==
  CASE fn = "generateImagePrompt" -> {[NoResponse EXCEPT !.text = t] : t \in {Null, PromptText}}
    [] fn \in ScriptBuilders ->
         {[NoResponse EXCEPT !.text = t] : t \in {"", ScriptJson, TruncatedJson}}
    [] fn = "evaluatePresentation" ->
         {[NoResponse EXCEPT !.text = t] : t \in {"", ScoresJson, TruncatedJson}}
    [] fn = "generateTeacherVoice" ->
         {[NoResponse EXCEPT !.audio = a] : a \in {Null} \cup AudioData}
    [] OTHER -> {}

AllResponses == UNION {Responses(fn) : fn \in Builders}

\* the rest of the attempt callback once its request is answered: lines 480,
\* 548, 617, 632-634, 720-758
Completions(fn, resp) ==
  CASE fn = "generateImagePrompt" -> {Returned(OrElse(trim(resp.text), DefaultPrompt))}
    [] fn \in ScriptBuilders -> {JSONparse(OrElse(resp.text, DefaultScriptJson))}
    [] fn = "evaluatePresentation" ->
         LET raw == JSONparse(OrElse(resp.text, EmptyObjectJson))
         IN IF raw.ok THEN {Returned(r) : r \in Evaluations(raw.value[1])} ELSE {raw}
    [] fn = "generateTeacherVoice" ->
         IF resp.audio = Null THEN {Thrown(InvalidCharacterError)}
         ELSE {Returned(AudioBuffer(resp.audio))}
    [] OTHER -> {}

(***************************************************************************)
(* Audio decoding (lines 769-778).  A sample of the buffer is a number of  *)
(* 32768ths: the division of an Int16 by 32768.0 is exact, also in the     *)
(* Float32Array of the channel.                                            *)
(***************************************************************************)
SampleDen == 32768

\* variant: the first byte of a sample is its high byte
Int16At_BigEndian(data, k) ==
  LET u == 256 * data[2 * k + 1] + data[2 * k + 2]
  IN IF u >= 32768 THEN u - 65536 ELSE u

\* new Int16Array(data.buffer)[k] (line 770): the bytes 2k and 2k+1 of the
\* buffer as a two's complement number, low byte first (the byte order of the
\* platforms the browsers run on); sequences count from 1
Int16At(data, k) ==
  LET u == data[2 * k + 1] + 256 * data[2 * k + 2]
  IN IF u >= 32768 THEN u - 65536 ELSE u

\* new Int16Array(data.buffer).length; a buffer of odd length is refused
Int16Length(data) == Len(data) \div 2

\* line 771 and createBuffer (line 772), which takes the whole frames
FrameCount(data, numChannels) == Int16Length(data) \div numChannels

\* lines 773-776: channel c (from 0) of the buffer, frame after frame
ChannelData(data, numChannels, c) ==
  [i \in 1..FrameCount(data, numChannels) |->
     Int16At(data, (i - 1) * numChannels + c)]

\* decodeAudioData(data, ctx, sampleRate, numChannels): the channels of the
\* buffer, channel c at index c + 1; new Int16Array throws a RangeError over a
\* buffer of odd length
decodeAudioData(data, numChannels) ==
  IF Len(data) % 2 # 0
  THEN [ok |-> FALSE, channels |-> <<>>]
  ELSE [ok |-> TRUE,
        channels |-> [c \in 1..numChannels |-> ChannelData(data, numChannels, c - 1)]]

NoAudio == [pc |-> "none", data |-> <<>>, numChannels |-> 1, ok |-> FALSE, channels |-> <<>>]

(***************************************************************************)
(* The App component                                                       *)
(***************************************************************************)
\* lines 33-50 and the effect of line 62: the state of a freshly mounted App
\* App.tsx line 166: `${intro} ${points.join(' ')} ${conclusion}`, a text being
\* the sequence of its parts
fullScript(scriptData) == <<scriptData.intro>> \o scriptData.points \o <<scriptData.conclusion>>

\* the scripts handleGenerate is handed by the script builders
Scripts == {DefaultScript, ParsedScript}

\* the texts toggleTeacherVoice is called with for a presentation: its script
\* (line 601) and the words of its vocabulary (line 619)
TextsOf(presentation) ==
  {presentation.script} \cup
    {<<presentation.lessonVocab[i].word>> : i \in DOMAIN presentation.lessonVocab}

PresentationOf(scriptData) ==
  [script |-> fullScript(scriptData), lessonVocab |-> scriptData.lessonVocab]

Texts == UNION {TextsOf(PresentationOf(sd)) : sd \in Scripts}

\* variant: the lookup never finds an entry
CacheGet_Miss(cache, text) == <<>>

\* audioCacheRef.current.get(text): <<>> (undefined) or <<buffer>>
CacheGet(cache, text) == cache[text]

\* audioCacheRef.current.set(text, buffer)
CacheSet(cache, text, buffer) == [cache EXCEPT ![text] = <<buffer>>]

\* lines 33-59 and the effect of line 62: the state of a freshly mounted App.
\* appError, presentation and sourceNode are <<>> for null; jobs are the
\* service calls its handlers are waiting for; generations counts the runs of
\* handleGenerate and played tells where the buffer of sourceNode came from;
\* result is <<>> for null, recorder is the state of the MediaRecorder,
\* alert names the last alert of the settings dialog and prompted the handler
\* that opened the dialog for want of a key.
InitialApp(st) ==
  [status |-> "IDLE", appError |-> <<>>,
   showSettings |-> (OrElse(st.gemini_api_key, "") = ""),
   apiKey |-> OrElse(st.gemini_api_key, ""),
   selectedModel |-> OrElse(st.selected_model, DefaultModel),
   presentation |-> <<>>, isAudioLoading |-> FALSE, audioState |-> "idle",
   sourceNode |-> <<>>, played |-> "none",
   audioCache |-> [t \in Texts |-> <<>>], jobs |-> <<>>, generations |-> 0,
   result |-> <<>>, recordedBlob |-> FALSE, recorder |-> "inactive", alert |-> "none",
   prompted |-> "none"]

(***************************************************************************)
(* State                                                                   *)
(***************************************************************************)
VARIABLES
  store,   \* localStorage: gemini_api_key, selected_model
  ev,      \* a score evaluation: the raw scores and what the evaluator makes of them
  pcm,     \* an audio decoding: the bytes handed to decodeAudioData and its buffer
  app,     \* the state and refs of the App component
  cw,      \* the activation of callWithRetry: its parameters, locals, position and result
  calls,   \* history: one record per invocation of the attempt callback fn(model),
           \* with the kind of its result; the error itself is kept for the latest only
  timers,  \* indices (in calls) of the attempts whose withTimeout timer is scheduled
  ops      \* indices (in calls) of the attempts whose service request is still in flight

vars == <<store, ev, pcm, app, cw, calls, timers, ops>>

BaseDelay == Ms(1500)

NoOutcome == [kind |-> "none", value |-> Null, error |-> <<>>]

Succeeded(v) == [kind |-> "ok", value |-> v, error |-> <<>>]

Failed(err) == [kind |-> "failed", value |-> Null, error |-> <<err>>]

IdleFrame ==
  [pc |-> "idle", fn |-> "fn", models |-> <<>>, maxRetriesPerModel |-> 1, timeoutMs |-> TimeoutMs,
   mi |-> 1, attempt |-> 0, delay |-> BaseDelay, lastError |-> <<>>, outcome |-> NoOutcome]

\* A run of callWithRetry between two suspensions: the frame, the history and
\* the guards it leaves behind.
Run(f, cs, ts, os) == [cw |-> f, calls |-> cs, timers |-> ts, ops |-> os]

\* the failures the service signals as quota / rate limit
QuotaErrors == {E429, EQuota, EResourceExhausted}

\* the kind of a failed attempt, as the history records it
FailureKind(err) ==
  IF err \in QuotaErrors THEN "quota"
  ELSE IF err = MissingCredentialError THEN "credential"
  ELSE IF err = SyntaxError THEN "parse"
  ELSE IF \E m \in ModelIds : err = TimeoutError(m, TimeoutMs) THEN "timeout"
  ELSE "other"

\* variant: the synthesizer requests the candidate model it is handed
RequestModel_Candidate(fn, model) == model

\* the model a builder's request names: the candidate it is handed (lines 474,
\* 499, 567, 642), for the voice synthesizer the fixed one (line 625)
RequestModel(fn, model) == IF fn = "generateTeacherVoice" THEN TTSModel ELSE model

\* the call fn(model): the credential it reads first (getApiKey(), line 472) and
\* the model its request names; without a credential no request is made
NewCall(f, st) ==
  [model |-> f.models[f.mi], mi |-> f.mi, attempt |-> f.attempt,
   key |-> getApiKey(st),
   request |-> IF getApiKey(st) = Null THEN Null ELSE RequestModel(f.fn, f.models[f.mi]),
   text |-> Null, res |-> "pending", value |-> Null, error |-> <<>>, waited |-> 0]

\* fn(model) is invoked: a new entry, the errors of the earlier ones forgotten
Called(cs, f, st) == Append([i \in DOMAIN cs |-> [cs[i] EXCEPT !.error = <<>>]], NewCall(f, st))

\* the request of the latest call is answered with a text (or none)
Received(cs, resp) == [cs EXCEPT ![Len(cs)] = [@ EXCEPT !.text = resp.text]]

Fulfilled(cs, v) == [cs EXCEPT ![Len(cs)] = [@ EXCEPT !.res = "ok", !.value = v]]

Rejected(cs, err) ==
  [cs EXCEPT ![Len(cs)] = [@ EXCEPT !.res = FailureKind(err), !.error = <<err>>]]

Init ==
  /\ store \in [gemini_api_key : StoredKeys, selected_model : StoredModels]
  /\ ev = NoEvaluation
  /\ pcm = NoAudio
  /\ app = InitialApp(store)
  /\ cw = IdleFrame
  /\ calls = <<>>
  /\ timers = {}
  /\ ops = {}

(***************************************************************************)
(* callWithRetry                                                           *)
(***************************************************************************)
\* variant: the aggregate failure rethrows the last error itself
ThrowAggregate_Raw(f) ==
  [f EXCEPT !.pc = "done",
            !.outcome = IF f.lastError = <<>> THEN Failed(AggregateError(<<>>))
                        ELSE Failed(f.lastError[1])]

\* line 436: return await withTimeout(...)
Return(f, v) == [f EXCEPT !.pc = "done", !.outcome = Succeeded(v)]

\* line 463: throw new Error(`TAT CA MODEL DEU LOI: ${errMsg} ...`)
ThrowAggregate(f) == [f EXCEPT !.pc = "done", !.outcome = Failed(AggregateError(f.lastError))]

\* variant: the last attempt of a model is never reached (attempt < max - 2)
RetrySameModel_OffByOne(f, err) ==
  /\ ~isTimeoutError(err)
  /\ isQuotaError(err)
  /\ f.attempt < f.maxRetriesPerModel - 2

\* variant: a timeout is retried like a quota error
RetrySameModel_TimeoutRetried(f, err) ==
  /\ isTimeoutError(err) \/ isQuotaError(err)
  /\ f.attempt < f.maxRetriesPerModel - 1

\* variant: every error but a timeout is retried while attempts remain
RetrySameModel_AnyError(f, err) ==
  /\ ~isTimeoutError(err)
  /\ f.attempt < f.maxRetriesPerModel - 1

\* variant: one retry more than the limit allows (attempt < max)
RetrySameModel_OneTooMany(f, err) ==
  /\ ~isTimeoutError(err)
  /\ isQuotaError(err)
  /\ f.attempt < f.maxRetriesPerModel

\* lines 443-448: the catch block retries the same model (after a wait)
RetrySameModel(f, err) ==
  /\ ~isTimeoutError(err)
  /\ isQuotaError(err)
  /\ f.attempt < f.maxRetriesPerModel - 1

\* variant: delay *= 2
NextDelay_Double(delay) == delay * 2

\* variant: the delay is not increased
NextDelay_Same(delay) == delay

\* line 451: delay *= 2.5
NextDelay(delay) == (delay * 5) \div 2

\* variant: the delay reached on a model is carried over to the next one
NextModel_KeepDelay(f) == [f EXCEPT !.mi = @ + 1, !.attempt = 0]

\* line 431-432: the outer loop advances to the next candidate
NextModel(f) == [f EXCEPT !.mi = @ + 1, !.attempt = 0, !.delay = BaseDelay]

\* variant: the retry does not advance the attempt index
NextAttempt_Stuck(f) == f

\* line 433 / 452: attempt++
NextAttempt(f) == [f EXCEPT !.attempt = @ + 1]

\* variant: the timer is not released when the operation settles
ClearTimeout_Forgotten(ts, i) == ts

\* lines 418-419: clearTimeout(timer)
ClearTimeout(ts, i) == ts \ {i}

RECURSIVE Loop(_, _, _, _, _)

\* variant: the condition is tested after the attempt (do ... while)
AttemptsLeft_TestedAfter(f) == f.attempt = 0 \/ f.attempt < f.maxRetriesPerModel

\* line 433: the condition of the inner loop, tested before every attempt
AttemptsLeft(f) == f.attempt < f.maxRetriesPerModel

\* variant: lastError = lastError || err
RecordError_KeepFirst(f, err) == IF f.lastError = <<>> THEN [f EXCEPT !.lastError = <<err>>] ELSE f

\* line 438: lastError = err
RecordError(f, err) == [f EXCEPT !.lastError = <<err>>]

\* variant: on a timeout the catch block continues with the next attempt on
\* the same model instead of leaving the inner loop
Catch_TimeoutContinue(f, cs, ts, os, st, err) ==
  LET f1 == RecordError(f, err) IN
  IF isTimeoutError(err) THEN Loop(NextAttempt(f1), cs, ts, os, st)
  ELSE IF RetrySameModel(f1, err)
  THEN Run([f1 EXCEPT !.pc = "backoff"],
           [cs EXCEPT ![Len(cs)] = [@ EXCEPT !.waited = f1.delay]], ts, os)
  ELSE Loop(NextModel(f1), cs, ts, os, st)

\* lines 437-457: the catch block, entered with the error of the last call
Catch(f, cs, ts, os, st, err) ==
  LET f1 == RecordError(f, err) IN
  IF RetrySameModel(f1, err)
  THEN Run([f1 EXCEPT !.pc = "backoff"],
           [cs EXCEPT ![Len(cs)] = [@ EXCEPT !.waited = f1.delay]], ts, os)
  ELSE Loop(NextModel(f1), cs, ts, os, st)

\* variant: with the attempt on a candidate, the attempt on the next candidate
\* is started as well
Loop_Hedged(f, cs, ts, os, st) ==
  IF f.mi > Len(f.models) THEN Run(ThrowAggregate(f), cs, ts, os)
  ELSE IF ~AttemptsLeft(f) THEN Loop(NextModel(f), cs, ts, os, st)
  ELSE LET cs1 == Called(cs, f, st)
           idx == Len(cs1)
       IN IF getApiKey(st) = Null
          THEN Catch(f, Rejected(cs1, MissingCredentialError),
                     ClearTimeout(ts \cup {idx}, idx), os, st, MissingCredentialError)
          ELSE IF f.mi < Len(f.models)
          THEN Run([NextModel(f) EXCEPT !.pc = "await"], Called(cs1, NextModel(f), st),
                   ts \cup {idx, idx + 1}, os \cup {idx, idx + 1})
          ELSE Run([f EXCEPT !.pc = "await"], cs1, ts \cup {idx}, os \cup {idx})

\* lines 431-436: the loop conditions, then fn(model) under withTimeout.
\* fn reads the credential first (line 472); without one its promise is
\* rejected at once and the guard's catch callback releases the timer and
\* rejects in the same run of the event loop.
Loop(f, cs, ts, os, st) ==
  IF f.mi > Len(f.models) THEN Run(ThrowAggregate(f), cs, ts, os)
  ELSE IF ~AttemptsLeft(f) THEN Loop(NextModel(f), cs, ts, os, st)
  ELSE LET cs1 == Called(cs, f, st)
           idx == Len(cs1)
       IN IF getApiKey(st) = Null
          THEN Catch(f, Rejected(cs1, MissingCredentialError),
                     ClearTimeout(ts \cup {idx}, idx), os, st, MissingCredentialError)
          ELSE Run([f EXCEPT !.pc = "await"], cs1, ts \cup {idx}, os \cup {idx})

Become(r) ==
  /\ cw' = r.cw
  /\ calls' = r.calls
  /\ timers' = r.timers
  /\ ops' = r.ops

\* the attempt the activation is suspended on
Awaited == IF cw.pc = "await" THEN Len(calls) ELSE 0

(***************************************************************************)
(* Actions                                                                 *)
(***************************************************************************)
\* a builder calls callWithRetry(fn, maxRetriesPerModel); lines 423-436
Invoke(maxRetries) ==
  /\ cw.pc = "idle"
  /\ Become(Loop([IdleFrame EXCEPT !.pc = "run", !.models = getFallbackModels(store),
                                   !.maxRetriesPerModel = maxRetries],
                 <<>>, {}, {}, store))
  /\ UNCHANGED <<store, ev, pcm, app>>

\* variant: a success leaves the inner loop (break) instead of returning
OpFulfil_Break(v) ==
  /\ Awaited # 0
  /\ Awaited \in ops
  /\ Become(Loop(NextModel(cw), Fulfilled(calls, v),
                 timers \ {Awaited}, ops \ {Awaited}, store))
  /\ UNCHANGED <<store, ev, pcm, app>>

\* the awaited request is answered: line 418, then line 436
OpFulfil(v) ==
  /\ Awaited # 0
  /\ Awaited \in ops
  /\ cw' = Return(cw, v)
  /\ calls' = Fulfilled(calls, v)
  /\ timers' = ClearTimeout(timers, Awaited)
  /\ ops' = ops \ {Awaited}
  /\ UNCHANGED <<store, ev, pcm, app>>

\* the awaited request is rejected: line 419, then the catch block
OpReject(err) ==
  /\ Awaited # 0
  /\ Awaited \in ops
  /\ Become(Catch(cw, Rejected(calls, err), ClearTimeout(timers, Awaited), ops \ {Awaited},
                  store, err))
  /\ UNCHANGED <<store, ev, pcm, app>>

\* variant: the timer fires without rejecting the guard's promise
TimerFire_NoReject(i) ==
  /\ i \in timers
  /\ timers' = timers \ {i}
  /\ UNCHANGED <<store, ev, pcm, app, cw, calls, ops>>

\* a timer of withTimeout fires: lines 413-415; the request stays in flight
TimerFire(i) ==
  /\ i \in timers
  /\ IF i = Awaited
     THEN LET err == TimeoutError(calls[i].model, cw.timeoutMs)
          IN Become(Catch(cw, Rejected(calls, err), timers \ {i}, ops, store, err))
     ELSE /\ timers' = timers \ {i}
          /\ UNCHANGED <<cw, calls, ops>>
  /\ UNCHANGED <<store, ev, pcm, app>>

\* the backoff wait of line 450 is over: lines 451-452, then the next attempt
BackoffElapsed ==
  /\ cw.pc = "backoff"
  /\ Become(Loop(NextAttempt([cw EXCEPT !.pc = "run", !.delay = NextDelay(@)]),
                 calls, timers, ops, store))
  /\ UNCHANGED <<store, ev, pcm, app>>

\* variant: the late result of an abandoned request is delivered to the caller
LateSettle_Delivers(i) ==
  /\ i \in ops
  /\ i # Awaited
  /\ ops' = ops \ {i}
  /\ cw' = Return(cw, "v1")
  /\ UNCHANGED <<store, ev, pcm, app, calls, timers>>

\* variant: the late result of an abandoned request settles its attempt again
LateSettle_Resettles(i) ==
  /\ i \in ops
  /\ i # Awaited
  /\ ops' = ops \ {i}
  /\ calls' = [calls EXCEPT ![i] = [@ EXCEPT !.res = "ok", !.value = "v1"]]
  /\ UNCHANGED <<store, ev, pcm, app, cw, timers>>

\* a request abandoned by a timeout settles in the background: lines 418-419
\* run on a settled promise and a fired timer
LateSettle(i) ==
  /\ i \in ops
  /\ i # Awaited
  /\ ops' = ops \ {i}
  /\ UNCHANGED <<store, ev, pcm, app, cw, calls, timers>>

Next ==
  \/ \E n \in RetryLimits : Invoke(n)
  \/ \E v \in Values : OpFulfil(v)
  \/ \E e \in ServiceErrors : OpReject(e)
  \/ \E i \in timers : TimerFire(i)
  \/ BackoffElapsed
  \/ \E i \in ops : LateSettle(i)

Spec == Init /\ [][Next]_vars

\* The event loop runs every timer that is due: the guard's timer (line 413)
\* and the backoff timer (line 450) fire eventually.  Nothing obliges the
\* service to answer.
Fairness ==
  /\ WF_vars(\E i \in timers : TimerFire(i))
  /\ WF_vars(BackoffElapsed)

\* The invocations of the builders: every stored selection, and the default
\* retry limit (no builder passes maxRetriesPerModel).
DefaultRetries == 1

SettingsInit ==
  /\ store \in [gemini_api_key : StoredKeys, selected_model : AllStoredModels]
  /\ ev = NoEvaluation
  /\ pcm = NoAudio
  /\ app = InitialApp(store)
  /\ cw = IdleFrame
  /\ calls = <<>>
  /\ timers = {}
  /\ ops = {}

DefaultNext ==
  \/ Invoke(DefaultRetries)
  \/ \E v \in Values : OpFulfil(v)
  \/ \E e \in ServiceErrors : OpReject(e)
  \/ \E i \in timers : TimerFire(i)
  \/ \E i \in ops : LateSettle(i)

DefaultSpec == SettingsInit /\ [][DefaultNext]_vars

(***************************************************************************)
(* The builders, and the settings dialog open beside them                  *)
(***************************************************************************)
\* a builder is called: callWithRetry(fn) with the default retry limit
InvokeBuilder(b) ==
  /\ cw.pc = "idle"
  /\ Become(Loop([IdleFrame EXCEPT !.pc = "run", !.fn = b, !.models = getFallbackModels(store)],
                 <<>>, {}, {}, store))
  /\ UNCHANGED <<store, ev, pcm, app>>

\* the awaited request is answered: the callback goes on with the response
\* and returns (line 418, then line 436) or throws (line 419, then the catch
\* block)
Respond(resp) ==
  /\ Awaited # 0
  /\ Awaited \in ops
  /\ resp \in Responses(cw.fn)
  /\ \E c \in Completions(cw.fn, resp) :
       IF c.ok
       THEN /\ cw' = Return(cw, c.value[1])
            /\ calls' = Fulfilled(Received(calls, resp), c.value[1])
            /\ timers' = ClearTimeout(timers, Awaited)
            /\ ops' = ops \ {Awaited}
       ELSE Become(Catch(cw, Rejected(Received(calls, resp), c.error[1]),
                         ClearTimeout(timers, Awaited), ops \ {Awaited}, store, c.error[1]))
  /\ UNCHANGED <<store, ev, pcm, app>>

\* App.tsx lines 452, 468, 498: the settings dialog is opened
OpenSettings ==
  /\ ~app.showSettings
  /\ app' = [app EXCEPT !.showSettings = TRUE]
  /\ UNCHANGED <<store, ev, pcm, cw, calls, timers, ops>>

\* what the user types into the key field of the dialog
TypedKeys == {"", "   ", " AIza-new "}

\* a key the dialog accepts
AcceptedKeys == {" AIza-new "}

\* App.tsx line 805: the dialog is closed without a save, which the App
\* allows once it holds a key
CloseSettings ==
  /\ app.showSettings
  /\ app.apiKey # ""
  /\ app' = [app EXCEPT !.showSettings = FALSE, !.prompted = "none"]
  /\ UNCHANGED <<store, ev, pcm, cw, calls, timers, ops>>

\* the models the dialog saves: the one it was opened with (currentModel) or
\* another of its list
SavedModels(current) == {current, "gemini-3-pro-preview"}

\* variant: the dialog saves whatever was typed
SaveSettings_Unchecked(typed, model) ==
  /\ app.showSettings
  /\ model \in SavedModels(app.selectedModel)
  /\ store' = [gemini_api_key |-> trim(typed), selected_model |-> model]
  /\ app' = [app EXCEPT !.apiKey = trim(typed), !.selectedModel = model, !.showSettings = FALSE,
                        !.prompted = "none", !.appError = <<>>,
                        !.status = IF app.appError # <<>> THEN "IDLE" ELSE @]
  /\ UNCHANGED <<ev, pcm, cw, calls, timers, ops>>

\* the dialog's handleSave (SettingsModal lines 48-54): a blank key is refused
\* with an alert; otherwise handleSaveSettings (App.tsx lines 83-95) runs
SaveSettings(typed, model) ==
  /\ app.showSettings
  /\ model \in SavedModels(app.selectedModel)
  /\ IF trim(typed) = ""
     THEN /\ app' = [app EXCEPT !.alert = "key"]
          /\ UNCHANGED store
     ELSE /\ store' = [gemini_api_key |-> trim(typed), selected_model |-> model]
          /\ app' = [app EXCEPT !.apiKey = trim(typed), !.selectedModel = model,
                                !.showSettings = FALSE, !.prompted = "none",
                                !.appError = <<>>,
                                !.status = IF app.appError # <<>> THEN "IDLE" ELSE @]
  /\ UNCHANGED <<ev, pcm, cw, calls, timers, ops>>

\* failures of the service met by the builders
BuilderErrors == {EQuota, EOther}

BuilderNext ==
  \/ \E b \in Builders : InvokeBuilder(b)
  \/ \E resp \in AllResponses : Respond(resp)
  \/ \E e \in BuilderErrors : OpReject(e)
  \/ \E i \in timers : TimerFire(i)
  \/ \E i \in ops : LateSettle(i)
  \/ OpenSettings
  \/ \E typed \in AcceptedKeys : \E model \in ModelIds : SaveSettings(typed, model)

BuilderSpec == Init /\ [][BuilderNext]_vars

(***************************************************************************)
(* The evaluator's scoring of a parsed response                           *)
(***************************************************************************)
MaxRaw == 13000

\* raw scores well above the 0-10 and the 0-100 scale, in thousandths
LargeRaws == {85000, 99500, 100000, 250000, 1000000}

\* the raw values of one field: every number from -1 up to 12 in steps of
\* 0.001, some large ones, and the values that are not numbers
RawValues ==
  {Undefined, NullValue, NotANumber} \cup {Num(n - RawDen) : n \in 0..MaxRaw}
    \cup {Num(n) : n \in LargeRaws}

\* the raw values combined over the six fields
ScoreSamples == {Undefined, Num(800), Num(7000), Num(7300), Num(9000), Num(10000)}

RawObjects ==
  {[EmptyObject EXCEPT !.pronunciation = v] : v \in RawValues} \cup [Dimensions -> ScoreSamples]

\* responses that carry a score, a level or a feedback of their own, for a
\* lesson of the first or the second level
OtherValues == {Undefined, Num(3000), Str(3)}

OtherObjects == [OtherFields -> OtherValues]

FullResponses ==
  {[NoEvaluation EXCEPT !.pc = "raw", !.raw = r, !.other = o, !.level = l] :
     r \in [Dimensions -> {Num(800), Num(7300)}], o \in OtherObjects, l \in {1, 2}}

ScoreInit ==
  /\ store = [gemini_api_key |-> "AIza-key", selected_model |-> Null]
  /\ \/ ev \in {[NoEvaluation EXCEPT !.pc = "raw", !.raw = r] : r \in RawObjects}
     \/ ev \in FullResponses
  /\ pcm = NoAudio
  /\ app = InitialApp(store)
  /\ cw = IdleFrame
  /\ calls = <<>>
  /\ timers = {}
  /\ ops = {}

\* lines 737-758 applied to the parsed response
Evaluate ==
  /\ ev.pc = "raw"
  /\ \E r \in Evaluations(ev.raw) :
       ev' = [ev EXCEPT !.pc = "scored", !.scores = r.scores, !.score = r.score,
                        !.result = Result(RawObject(ev.raw, ev.other), r, ev.level)]
  /\ UNCHANGED <<store, pcm, app, cw, calls, timers, ops>>

ScoreNext == Evaluate

ScoreSpec == ScoreInit /\ [][ScoreNext]_vars

(***************************************************************************)
(* Audio decoding: decodeAudioData over byte arrays.                       *)
(***************************************************************************)
MaxBytes == 4

\* the bytes of the samples 0, 1, 16384, -16384, 32767, -32768, -1 and of
\* their neighbours
SampleBytes == {0, 1, 64, 127, 128, 192, 255}

ByteArrays == UNION {[1..n -> SampleBytes] : n \in 0..MaxBytes}

\* mono, as generateTeacherVoice asks for (line 634), and stereo
ChannelCounts == {1, 2}

DecodeInit ==
  /\ store = [gemini_api_key |-> "AIza-key", selected_model |-> Null]
  /\ ev = NoEvaluation
  /\ pcm \in {[NoAudio EXCEPT !.pc = "data", !.data = d, !.numChannels = n] :
                d \in ByteArrays, n \in ChannelCounts}
  /\ app = InitialApp(store)
  /\ cw = IdleFrame
  /\ calls = <<>>
  /\ timers = {}
  /\ ops = {}

\* lines 769-778: the bytes are decoded
Decode ==
  /\ pcm.pc = "data"
  /\ LET r == decodeAudioData(pcm.data, pcm.numChannels)
     IN pcm' = [pcm EXCEPT !.pc = IF r.ok THEN "decoded" ELSE "failed",
                           !.ok = r.ok, !.channels = r.channels]
  /\ UNCHANGED <<store, ev, app, cw, calls, timers, ops>>

DecodeNext == Decode

DecodeSpec == DecodeInit /\ [][DecodeNext]_vars

(***************************************************************************)
(* The App component: lesson generation and the teacher's voice.  A call   *)
(* of a service builder is a job that settles with an outcome of           *)
(* callWithRetry: a value or the aggregate error.                          *)
(***************************************************************************)
MaxGenerations == 2

\* cancelled tells that the user pressed the cancel button while the handler
\* was waiting
NewJob(handler, stage, text) ==
  [handler |-> handler, stage |-> stage, text |-> text, cancelled |-> FALSE]

Remove(seq, i) == SubSeq(seq, 1, i - 1) \o SubSeq(seq, i + 1, Len(seq))

\* how the builder a job waits for ends: with a value or with an error
JobDone(v) == [kind |-> "ok", value |-> <<v>>, error |-> <<>>]

JobFailed(err) == [kind |-> "failed", value |-> <<>>, error |-> <<err>>]

\* the failure a builder ends with
ServiceFailure == JobFailed(AggregateError(<<EOther>>))

\* the event reader.onerror rejects with (line 378): it has no message
ProgressEvent == [message |-> <<>>, status |-> NoStatus]

\* the error getUserMedia rejects with when the microphone is refused
NotAllowedError == [message |-> <<"Permission", "denied">>, status |-> NoStatus]

\* the outcomes of what a job waits for: a builder, the FileReader of line
\* 381 or getUserMedia (line 230)
Outcomes(stage) ==
  CASE stage = "prompt" -> {JobDone("A red kite in the sky"), ServiceFailure}
    [] stage = "script" -> {JobDone(sd) : sd \in Scripts} \cup {ServiceFailure}
    [] stage = "voice" -> {JobDone(AudioBuffer(d)) : d \in AudioData} \cup {ServiceFailure}
    [] stage = "read" -> {JobDone("UklGRg=="), JobFailed(ProgressEvent)}
    [] stage = "evaluate" -> {JobDone(e) : e \in Evaluations(EmptyObject)} \cup {ServiceFailure}
    [] stage = "microphone" -> {JobDone("stream"), JobFailed(NotAllowedError)}

\* lines 202 and 398: err?.message || "..."
GenerateFallback == <<"Loi khong xac dinh. Be hay thu lai nhe!">>

EvaluateFallback == <<"Loi khi cham bai. Be hay thu lai nhe!">>

ErrorMessage(err, fallback) == IF err.message = <<>> THEN fallback ELSE err.message

\* variant: the credential is not looked at before the handler starts
PreCheck_Skipped(st) == TRUE

\* lines 141-146 and 367-372: getApiKey() returns
PreCheck(st) == getApiKey(st) # Null

\* lines 134-166: handleGenerate up to its first await
HandleGenerate(withImage) ==
  /\ app.status = "IDLE"
  /\ ~app.showSettings
  /\ app.generations < MaxGenerations
  /\ IF ~PreCheck(store)
     THEN app' = [app EXCEPT !.showSettings = TRUE, !.prompted = "handleGenerate"]
     ELSE app' = [app EXCEPT !.status = "GENERATING", !.appError = <<>>,
                             !.generations = @ + 1,
                             !.jobs = Append(@, NewJob("handleGenerate",
                                                      IF withImage THEN "script" ELSE "prompt",
                                                      <<>>))]
  /\ UNCHANGED <<store, ev, pcm, cw, calls, timers, ops>>

\* lines 161-162 and 200-204: the image prompt is there and the script is
\* asked for, or the failure is shown
PromptSettled(i, outcome) ==
  /\ i \in DOMAIN app.jobs
  /\ app.jobs[i].stage = "prompt"
  /\ app' =
       IF outcome.kind = "failed"
       THEN [app EXCEPT !.appError = ErrorMessage(outcome.error[1], GenerateFallback),
                        !.status = "ERROR", !.jobs = Remove(@, i)]
       ELSE [app EXCEPT !.jobs[i].stage = "script"]
  /\ UNCHANGED <<store, ev, pcm, cw, calls, timers, ops>>

\* lines 166-184 and 200-204: the script is there, whatever happened to the
\* status meanwhile: the presentation is shown and the synthesis of its script
\* is started; or the failure is shown
ScriptSettled(i, outcome) ==
  /\ i \in DOMAIN app.jobs
  /\ app.jobs[i].stage = "script"
  /\ app' =
       IF outcome.kind = "failed"
       THEN [app EXCEPT !.appError = ErrorMessage(outcome.error[1], GenerateFallback),
                        !.status = "ERROR", !.jobs = Remove(@, i)]
       ELSE [app EXCEPT !.presentation = <<PresentationOf(outcome.value[1])>>,
                        !.status = "READY", !.isAudioLoading = TRUE,
                        !.jobs[i] = NewJob("handleGenerate", "voice",
                                           fullScript(outcome.value[1]))]
  /\ UNCHANGED <<store, ev, pcm, cw, calls, timers, ops>>

\* lines 185-199 and 414-423: the synthesis a handler waits for is over; the
\* buffer is stored and played, or the failure is swallowed
VoiceSettled(i, outcome) ==
  /\ i \in DOMAIN app.jobs
  /\ app.jobs[i].stage = "voice"
  /\ app' =
       IF outcome.kind = "failed"
       THEN [app EXCEPT !.audioState = "idle", !.isAudioLoading = FALSE, !.jobs = Remove(@, i)]
       ELSE [app EXCEPT !.audioCache = CacheSet(@, app.jobs[i].text, outcome.value[1]),
                        !.sourceNode = outcome.value, !.played = "synthesis",
                        !.audioState = "playing", !.isAudioLoading = FALSE,
                        !.jobs = Remove(@, i)]
  /\ UNCHANGED <<store, ev, pcm, cw, calls, timers, ops>>

\* lines 403-424, up to the await of line 413 when the text is not cached
ToggleTeacherVoice(text) ==
  /\ app.presentation # <<>>
  /\ app.status \in {"READY", "RECORDING", "REVIEWING"}
  /\ ~app.showSettings
  /\ text \in TextsOf(app.presentation[1])
  /\ ~app.isAudioLoading
  /\ app' =
       IF app.audioState = "playing"
       THEN [app EXCEPT !.sourceNode = <<>>, !.audioState = "idle"]
       ELSE LET cached == CacheGet(app.audioCache, text)
            IN IF cached # <<>>
               THEN [app EXCEPT !.audioCache = CacheSet(@, text, cached[1]),
                                !.sourceNode = cached, !.played = "cache",
                                !.audioState = "playing"]
               ELSE [app EXCEPT !.isAudioLoading = TRUE,
                                !.jobs = Append(@, NewJob("toggleTeacherVoice", "voice", text))]
  /\ UNCHANGED <<store, ev, pcm, cw, calls, timers, ops>>

\* lines 193 and 422: source.onended
AudioEnded ==
  /\ app.sourceNode # <<>>
  /\ app' = [app EXCEPT !.audioState = "idle", !.sourceNode = <<>>]
  /\ UNCHANGED <<store, ev, pcm, cw, calls, timers, ops>>

\* the jobs of a handler that wait in one of the stages, marked as cancelled
Cancelled(jobs, handler, stages) ==
  [i \in DOMAIN jobs |->
     IF jobs[i].handler = handler /\ jobs[i].stage \in stages
     THEN [jobs[i] EXCEPT !.cancelled = TRUE] ELSE jobs[i]]

\* lines 576-584: the cancel button of the GENERATING screen; the run of
\* handleGenerate goes on
CancelGenerate ==
  /\ app.status = "GENERATING"
  /\ ~app.showSettings
  /\ app' = [app EXCEPT !.status = "IDLE", !.appError = <<>>,
                        !.jobs = Cancelled(@, "handleGenerate", {"prompt", "script"})]
  /\ UNCHANGED <<store, ev, pcm, cw, calls, timers, ops>>

\* variant: the retry button only drops the message
HandleRetry_KeepsStatus ==
  /\ app.status = "ERROR"
  /\ app.appError # <<>>
  /\ ~app.showSettings
  /\ app' = [app EXCEPT !.appError = <<>>]
  /\ UNCHANGED <<store, ev, pcm, cw, calls, timers, ops>>

\* lines 207-210, the retry button of the ERROR screen (line 478: shown when
\* the status is ERROR and there is a message)
HandleRetry ==
  /\ app.status = "ERROR"
  /\ app.appError # <<>>
  /\ ~app.showSettings
  /\ app' = [app EXCEPT !.status = "IDLE", !.appError = <<>>]
  /\ UNCHANGED <<store, ev, pcm, cw, calls, timers, ops>>

\* every handler that waits holds one job: the runs of handleGenerate and a
\* run of toggleTeacherVoice
JobIndices == 1..(MaxGenerations + 1)

AppNext ==
  \/ \E withImage \in BOOLEAN : HandleGenerate(withImage)
  \/ \E i \in JobIndices : \E outcome \in Outcomes("prompt") : PromptSettled(i, outcome)
  \/ \E i \in JobIndices : \E outcome \in Outcomes("script") : ScriptSettled(i, outcome)
  \/ \E i \in JobIndices : \E outcome \in Outcomes("voice") : VoiceSettled(i, outcome)
  \/ \E text \in Texts : ToggleTeacherVoice(text)
  \/ AudioEnded
  \/ CancelGenerate
  \/ HandleRetry
  \/ \E typed \in AcceptedKeys : \E model \in ModelIds : SaveSettings(typed, model)

AppSpec == Init /\ [][AppNext]_vars

(***************************************************************************)
(* The App component: recording, evaluation and the settings dialog.  A    *)
(* reload of the page (lines 429 and 738) starts the App anew, from Init.  *)
(***************************************************************************)
\* the handlers that may wait at the same time
MaxJobs == 2

\* localStorage loses the key outside the App (the site data is cleared, or
\* another tab removes it): the App keeps its apiKey state, getApiKey (line
\* 390) finds nothing
ClearStorage ==
  /\ store.gemini_api_key # Null
  /\ store' = [store EXCEPT !.gemini_api_key = Null]
  /\ UNCHANGED <<ev, pcm, app, cw, calls, timers, ops>>

\* lines 212-230: startRecording up to the await of getUserMedia (buttons of
\* lines 650 and 667)
StartRecording ==
  /\ app.presentation # <<>>
  /\ app.status \in {"READY", "REVIEWING"}
  /\ ~app.showSettings
  /\ Len(app.jobs) < MaxJobs
  /\ app' = [app EXCEPT !.recordedBlob = FALSE,
                        !.jobs = Append(@, NewJob("startRecording", "microphone", <<>>))]
  /\ UNCHANGED <<store, ev, pcm, cw, calls, timers, ops>>

\* lines 231-280: the recorder is started, or the refusal is told
MicrophoneSettled(i, outcome) ==
  /\ i \in DOMAIN app.jobs
  /\ app.jobs[i].stage = "microphone"
  /\ app' =
       IF outcome.kind = "failed"
       THEN [app EXCEPT !.status = "READY", !.jobs = Remove(@, i)]
       ELSE [app EXCEPT !.recorder = "recording", !.status = "RECORDING",
                        !.jobs = Remove(@, i)]
  /\ UNCHANGED <<store, ev, pcm, cw, calls, timers, ops>>

\* lines 283-292: stopRecording (button of line 660)
StopRecording ==
  /\ app.presentation # <<>>
  /\ app.status = "RECORDING"
  /\ ~app.showSettings
  /\ app' = [app EXCEPT !.recorder = IF @ = "recording" THEN "stopping" ELSE @,
                        !.status = "REVIEWING"]
  /\ UNCHANGED <<store, ev, pcm, cw, calls, timers, ops>>

\* lines 257-271: recorder.onstop
RecorderStopped ==
  /\ app.recorder = "stopping"
  /\ app' = [app EXCEPT !.recorder = "inactive", !.recordedBlob = TRUE]
  /\ UNCHANGED <<store, ev, pcm, cw, calls, timers, ops>>

\* lines 363-381: handleEvaluate up to its first await (button of line 668);
\* without a recording it returns at once
HandleEvaluate ==
  /\ app.presentation # <<>>
  /\ app.status = "REVIEWING"
  /\ ~app.showSettings
  /\ app.recordedBlob
  /\ Len(app.jobs) < MaxJobs
  /\ IF ~PreCheck(store)
     THEN app' = [app EXCEPT !.showSettings = TRUE, !.prompted = "handleEvaluate"]
     ELSE app' = [app EXCEPT !.status = "EVALUATING", !.appError = <<>>,
                             !.jobs = Append(@, NewJob("handleEvaluate", "read", <<>>))]
  /\ UNCHANGED <<store, ev, pcm, cw, calls, timers, ops>>

\* lines 382-389 and 396-400: the recording is read and the evaluation is
\* asked for, or the failure is shown
ReadSettled(i, outcome) ==
  /\ i \in DOMAIN app.jobs
  /\ app.jobs[i].stage = "read"
  /\ app' =
       IF outcome.kind = "failed"
       THEN [app EXCEPT !.appError = ErrorMessage(outcome.error[1], EvaluateFallback),
                        !.status = "ERROR", !.jobs = Remove(@, i)]
       ELSE [app EXCEPT !.jobs[i].stage = "evaluate"]
  /\ UNCHANGED <<store, ev, pcm, cw, calls, timers, ops>>

\* variant: the result screen is entered without the result
EvaluateSettled_StatusOnly(i, outcome) ==
  /\ i \in DOMAIN app.jobs
  /\ app.jobs[i].stage = "evaluate"
  /\ app' =
       IF outcome.kind = "failed"
       THEN [app EXCEPT !.appError = ErrorMessage(outcome.error[1], EvaluateFallback),
                        !.status = "ERROR", !.jobs = Remove(@, i)]
       ELSE [app EXCEPT !.status = "RESULT", !.jobs = Remove(@, i)]
  /\ UNCHANGED <<store, ev, pcm, cw, calls, timers, ops>>

\* lines 391-400: the evaluation is there, whatever happened to the status
\* meanwhile: the result is shown; or the failure is shown
EvaluateSettled(i, outcome) ==
  /\ i \in DOMAIN app.jobs
  /\ app.jobs[i].stage = "evaluate"
  /\ app' =
       IF outcome.kind = "failed"
       THEN [app EXCEPT !.appError = ErrorMessage(outcome.error[1], EvaluateFallback),
                        !.status = "ERROR", !.jobs = Remove(@, i)]
       ELSE [app EXCEPT !.result = outcome.value, !.status = "RESULT",
                        !.jobs = Remove(@, i)]
  /\ UNCHANGED <<store, ev, pcm, cw, calls, timers, ops>>

\* lines 680-688: the cancel button of the EVALUATING screen; the run of
\* handleEvaluate goes on
CancelEvaluate ==
  /\ app.status = "EVALUATING"
  /\ ~app.showSettings
  /\ app' = [app EXCEPT !.status = "REVIEWING", !.appError = <<>>,
                        !.jobs = Cancelled(@, "handleEvaluate", {"read", "evaluate"})]
  /\ UNCHANGED <<store, ev, pcm, cw, calls, timers, ops>>

\* every handler that waits holds one job
FlowJobs == 1..(MaxGenerations + MaxJobs)

FlowNext ==
  \/ \E withImage \in BOOLEAN : HandleGenerate(withImage)
  \/ \E i \in FlowJobs : \E outcome \in Outcomes("prompt") : PromptSettled(i, outcome)
  \/ \E i \in FlowJobs : \E outcome \in Outcomes("script") : ScriptSettled(i, outcome)
  \/ CancelGenerate
  \/ HandleRetry
  \/ OpenSettings
  \/ CloseSettings
  \/ \E typed \in TypedKeys : \E model \in ModelIds : SaveSettings(typed, model)
  \/ ClearStorage
  \/ StartRecording
  \/ \E i \in FlowJobs : \E outcome \in Outcomes("microphone") : MicrophoneSettled(i, outcome)
  \/ StopRecording
  \/ RecorderStopped
  \/ HandleEvaluate
  \/ \E i \in FlowJobs : \E outcome \in Outcomes("read") : ReadSettled(i, outcome)
  \/ \E i \in FlowJobs : \E outcome \in Outcomes("evaluate") : EvaluateSettled(i, outcome)
  \/ CancelEvaluate

\* the behaviours that start with the default model selection
FairInit == Init /\ store.selected_model = Null

FlowSpec == FairInit /\ [][FlowNext]_vars

FairSpec == FairInit /\ [][Next]_vars /\ Fairness

\* The invocations made with the default model selection and any retry limit
\* a caller can pass as maxRetriesPerModel (line 425), a negative one included.
AnyRetryLimits == {0 - 1} \cup RetryLimits

RetryNext ==
  \/ \E n \in AnyRetryLimits : Invoke(n)
  \/ \E v \in Values : OpFulfil(v)
  \/ \E e \in ServiceErrors : OpReject(e)
  \/ \E i \in timers : TimerFire(i)
  \/ BackoffElapsed
  \/ \E i \in ops : LateSettle(i)

RetrySpec == FairInit /\ [][RetryNext]_vars

TypeOK ==
  /\ cw.pc \in {"idle", "await", "backoff", "done"}
  /\ cw.mi \in 1..(Len(cw.models) + 1)
  /\ timers \subseteq DOMAIN calls
  /\ ops \subseteq DOMAIN calls

(***************************************************************************)
(* Properties of callWithRetry                                             *)
(***************************************************************************)
QuotaFailed(c) == c.res = "quota"

OtherFailed(c) == c.res \in {"other", "credential", "parse"}

TimedOut(c) == c.res = "timeout"

FailureKinds == {"quota", "other", "credential", "parse", "timeout"}

\* the errors an attempt can fail with
RawErrors ==
  ServiceErrors \cup {MissingCredentialError} \cup {TimeoutError(m, TimeoutMs) : m \in ModelIds}

\* the number of calls on the model of calls[i] up to and including calls[i]
Nth(i) == Cardinality({j \in 1..i : calls[j].mi = calls[i].mi})

OnlyQuotaBefore(i) == \A j \in 1..(i - 1) : calls[j].mi = calls[i].mi => QuotaFailed(calls[j])

IsAggregate(err) ==
  /\ Len(err.message) >= Len(AggregatePrefix)
  /\ SubSeq(err.message, 1, Len(AggregatePrefix)) = AggregatePrefix

\* C1: when the first N-1 calls on model M fail with a quota error and the
\* N-th succeeds, N <= maxRetriesPerModel, the orchestrator makes exactly
\* those N calls on M (it does not give up on M before the N-th call), returns
\* the value of the N-th call and calls no later model.
C1_QuotaThenSuccess ==
  \A i \in DOMAIN calls :
    (OnlyQuotaBefore(i) /\ Nth(i) <= cw.maxRetriesPerModel) =>
      /\ calls[i].attempt = Nth(i) - 1
      /\ (QuotaFailed(calls[i]) /\ Nth(i) < cw.maxRetriesPerModel) =>
            IF i = Len(calls) THEN cw.pc = "backoff" /\ cw.mi = calls[i].mi
            ELSE calls[i + 1].mi = calls[i].mi
      /\ calls[i].res = "ok" =>
            /\ i = Len(calls)
            /\ cw.pc = "done"
            /\ cw.outcome = Succeeded(calls[i].value)
            /\ Cardinality({j \in DOMAIN calls : calls[j].mi = calls[i].mi}) = Nth(i)
            /\ \A j \in DOMAIN calls : calls[j].mi <= calls[i].mi

C1_Witness ==
  /\ calls # <<>>
  /\ Last(calls).res = "ok"
  /\ Nth(Len(calls)) = 2
  /\ OnlyQuotaBefore(Len(calls))
  /\ cw.outcome = Succeeded(Last(calls).value)

\* C2: when every attempt times out, there is exactly one attempt per
\* candidate model, in list order, whatever the retry limit >= 1, and the
\* invocation ends with the aggregate error.
C2_TimeoutEveryModel ==
  (/\ calls # <<>>
   /\ \A i \in DOMAIN calls : TimedOut(calls[i]) \/ (i = Len(calls) /\ calls[i].res = "pending"))
  => /\ \A i \in DOMAIN calls : calls[i].mi = i /\ calls[i].attempt = 0
           /\ calls[i].model = cw.models[i]
     /\ TimedOut(Last(calls)) =>
           IF Len(calls) = Len(cw.models)
           THEN cw.pc = "done" /\ cw.outcome.kind = "failed" /\ IsAggregate(cw.outcome.error[1])
           ELSE FALSE

C2_Witness ==
  /\ cw.pc = "done"
  /\ cw.maxRetriesPerModel = 2
  /\ Len(calls) = Len(cw.models)
  /\ \A i \in DOMAIN calls : TimedOut(calls[i])

\* C3: a successful attempt is the last attempt of the invocation, and its
\* value is what the invocation returns.
C3_SuccessShortCircuits ==
  \A i \in DOMAIN calls :
    calls[i].res = "ok" =>
      /\ i = Len(calls)
      /\ cw.pc = "done"
      /\ cw.outcome = Succeeded(calls[i].value)
      /\ timers = {}

C3_Witness ==
  /\ calls # <<>>
  /\ Last(calls).res = "ok"
  /\ Last(calls).mi = 1
  /\ Last(calls).attempt = 0
  /\ cw.maxRetriesPerModel = 2
  /\ cw.pc = "done"

\* C4: after a quota failure with attempts left on the model the orchestrator
\* waits the current delay (1500 ms at first, 2.5 times the previous wait
\* after), then continues on the same model with the delay multiplied by 2.5;
\* with no attempt left it goes to the next model without a wait.
C4_QuotaBackoff ==
  \A i \in DOMAIN calls :
    QuotaFailed(calls[i]) =>
      IF calls[i].attempt < cw.maxRetriesPerModel - 1
      THEN /\ calls[i].attempt = 0 => calls[i].waited = Ms(1500)
           /\ calls[i].attempt > 0 => 2 * calls[i].waited = 5 * calls[i - 1].waited
           /\ IF i = Len(calls)
              THEN cw.pc = "backoff" /\ cw.delay = calls[i].waited /\ cw.mi = calls[i].mi
              ELSE /\ calls[i + 1].mi = calls[i].mi
                   /\ calls[i + 1].attempt = calls[i].attempt + 1
                   /\ (i + 1 = Len(calls) /\ cw.pc = "await") => 2 * cw.delay = 5 * calls[i].waited
      ELSE /\ calls[i].waited = 0
           /\ IF i = Len(calls)
              THEN cw.pc = "done" /\ calls[i].mi = Len(cw.models)
              ELSE calls[i + 1].mi = calls[i].mi + 1

C4_Witness ==
  /\ Len(calls) >= 3
  /\ QuotaFailed(calls[1]) /\ calls[1].waited = Ms(1500)
  /\ QuotaFailed(calls[2]) /\ calls[2].mi = 1 /\ calls[2].waited = 0
  /\ calls[3].mi = 2

\* C5: after a failure that is neither a timeout nor a quota error the model
\* is not called again: the next attempt, if any, is on the next candidate.
C5_OtherErrorSkipsModel ==
  \A i \in DOMAIN calls :
    OtherFailed(calls[i]) =>
      /\ calls[i].waited = 0
      /\ \A j \in (i + 1)..Len(calls) : calls[j].model # calls[i].model
      /\ IF i = Len(calls)
         THEN cw.pc = "done" /\ calls[i].mi = Len(cw.models)
         ELSE calls[i + 1].mi = calls[i].mi + 1

C5_Witness ==
  /\ Len(calls) >= 2
  /\ cw.maxRetriesPerModel = 2
  /\ calls[1].res = "other"
  /\ calls[2].mi = 2

\* C6: a model whose attempt timed out is not attempted again: the next
\* attempt, if any, is on the next candidate.
C6_TimeoutSkipsModel ==
  \A i \in DOMAIN calls :
    TimedOut(calls[i]) =>
      /\ calls[i].waited = 0
      /\ \A j \in (i + 1)..Len(calls) : calls[j].model # calls[i].model
      /\ IF i = Len(calls)
         THEN cw.pc = "done" /\ calls[i].mi = Len(cw.models)
         ELSE calls[i + 1].mi = calls[i].mi + 1

C6_Witness ==
  /\ Len(calls) >= 3
  /\ cw.maxRetriesPerModel = 2
  /\ QuotaFailed(calls[1])
  /\ TimedOut(calls[2]) /\ calls[2].attempt = 1
  /\ calls[3].mi = 2

\* C7: a missing credential ends the invocation at once: the credential check
\* fails once, nothing more is tried and the caller gets the
\* MissingCredential error itself.
C7_MissingCredentialFatal ==
  \A i \in DOMAIN calls :
    calls[i].res = "credential" =>
      /\ i = 1
      /\ Len(calls) = 1
      /\ cw.pc = "done"
      /\ cw.outcome = Failed(MissingCredentialError)

\* C8: when the invocation fails after at least one attempt, the aggregate
\* error embeds the description of the error of the last attempt made: its
\* message, or its JSON form when it has no message.
C8_AggregateEmbedsLastError ==
  (cw.outcome.kind = "failed" /\ calls # <<>>) =>
    LET last == Last(calls).error[1]
        text == cw.outcome.error[1].message
    IN /\ Last(calls).res \in FailureKinds
       /\ text = AggregatePrefix \o errMsgOf(last) \o AggregateSuffix
       /\ last.message # <<>> =>
            SubSeq(text, Len(AggregatePrefix) + 1, Len(AggregatePrefix) + Len(last.message))
              = last.message

C8_Witness ==
  /\ cw.outcome.kind = "failed"
  /\ Len(calls) >= 2
  /\ Last(calls).error = <<EOther>>
  /\ \E i \in DOMAIN calls : calls[i].res \in {"quota", "timeout"}

\* C9: the error an invocation fails with is never an error of an attempt as
\* is: it is the aggregate error or the MissingCredential error.
C9_NoRawErrorLeaks ==
  cw.outcome.kind = "failed" =>
    /\ cw.pc = "done"
    /\ \/ IsAggregate(cw.outcome.error[1])
       \/ cw.outcome.error[1] = MissingCredentialError
    /\ cw.outcome.error[1] \notin RawErrors \ {MissingCredentialError}

C9_Witness ==
  /\ cw.outcome.kind = "failed"
  /\ \E i \in DOMAIN calls : TimedOut(calls[i])
  /\ \E i \in DOMAIN calls : calls[i].res \in {"quota", "other"}

\* C10: the callback is invoked at most once per (model, attempt index), so at
\* most |candidates| x maxRetriesPerModel times, and the value returned is the
\* value of the one successful attempt.
C10_OncePerModelAttempt ==
  /\ \A i, j \in DOMAIN calls :
       (calls[i].model = calls[j].model /\ calls[i].attempt = calls[j].attempt) => i = j
  /\ \A i \in DOMAIN calls :
       /\ calls[i].attempt \in 0..(cw.maxRetriesPerModel - 1)
       /\ calls[i].model = cw.models[calls[i].mi]
  /\ cw.pc # "idle" => Len(calls) <= Len(cw.models) * cw.maxRetriesPerModel
  /\ Cardinality({i \in DOMAIN calls : calls[i].res = "ok"}) <= 1
  /\ cw.outcome.kind = "ok" =>
       /\ cw.outcome.value \in Values
       /\ \E i \in DOMAIN calls : calls[i].res = "ok" /\ calls[i].value = cw.outcome.value

C10_Witness ==
  /\ cw.maxRetriesPerModel = 2
  /\ Len(calls) = Len(cw.models) * cw.maxRetriesPerModel
  /\ cw.outcome.kind = "ok"

(***************************************************************************)
(* Termination, ordering and the timeout guard                             *)
(***************************************************************************)
\* C11: every invocation reaches a terminal state, Succeeded(value) or
\* Failed(aggregate error), also when no request is ever answered, and a
\* terminal state is never left or changed.
C11_EventuallyTerminal ==
  /\ (cw.pc # "idle") ~> (cw.pc = "done" /\ cw.outcome.kind \in {"ok", "failed"})
  /\ [][cw.pc = "done" => cw' = cw]_vars
  /\ [](cw.pc = "done" <=> cw.outcome.kind # "none")

C11_Witness ==
  /\ cw.pc = "done"
  /\ cw.outcome.kind = "failed"
  /\ Cardinality(ops) = Len(cw.models)
  /\ \A i \in DOMAIN calls : TimedOut(calls[i])

\* C12: attempts follow the candidate list: the candidate index never
\* decreases along the calls, and on one model the attempts follow each other
\* with strictly increasing waits between them.
C12_CandidateOrder ==
  /\ \A i, j \in DOMAIN calls : i < j => calls[i].mi <= calls[j].mi
  /\ \A i \in DOMAIN calls : calls[i].model = cw.models[calls[i].mi]
  /\ \A i \in 1..(Len(calls) - 1) :
       calls[i].mi = calls[i + 1].mi =>
         /\ calls[i + 1].attempt = calls[i].attempt + 1
         /\ calls[i].waited > 0
         /\ calls[i + 1].waited > 0 => calls[i + 1].waited > calls[i].waited

C12_Witness ==
  /\ Len(calls) >= 4
  /\ calls[1].mi = 1 /\ calls[2].mi = 1 /\ calls[3].mi = 1 /\ calls[4].mi = 2
  /\ calls[2].waited > calls[1].waited

\* C13 (as stated): at most one attempt operation started by the invocation
\* is in flight at any time.
C13_AtMostOneInFlight == Cardinality(ops) <= 1

\* C13 (amended): attempts are started one after the other: at most one
\* attempt is unsettled, it is the awaited one, and every other operation
\* still in flight belongs to an attempt abandoned by its timeout.
C13_OneAwaitedAttempt ==
  /\ \A i \in DOMAIN calls : calls[i].res = "pending" => i = Awaited
  /\ \A i \in ops : i = Awaited \/ TimedOut(calls[i])
  /\ Awaited # 0 => Awaited \in ops

C13_Witness ==
  /\ Cardinality(ops) >= 2
  /\ Awaited \in ops
  /\ \E i \in ops : TimedOut(calls[i])

\* C14: when the request of a timed-out attempt settles later, nothing of the
\* invocation changes: not its position, its candidate, its result or the
\* attempts made; a returned value is the value of the awaited attempt.
C14_LateResultDiscarded ==
  /\ [][(\E i \in ops \ ops' : TimedOut(calls[i])) =>
          (cw' = cw /\ calls' = calls /\ timers' = timers)]_vars
  /\ [](cw.outcome.kind = "ok" =>
          (Last(calls).res = "ok" /\ Last(calls).value = cw.outcome.value))

C14_Witness ==
  /\ cw.pc = "await"
  /\ \E i \in DOMAIN calls : TimedOut(calls[i]) /\ i \notin ops

\* C15: when the awaited operation completes while the timer is pending, the
\* guard yields the operation's result; when the timer fires first, the guard
\* fails with the timeout error that names the label and the deadline.
C15_GuardOutcome ==
  [][Awaited # 0 =>
       LET a == Awaited IN
       /\ a \notin ops' =>
            /\ calls'[a].res \in {"ok", "quota", "other"}
            /\ calls'[a].res = "ok" =>
                 (calls'[a].value \in Values /\ cw'.outcome = Succeeded(calls'[a].value))
            /\ calls'[a].res # "ok" => cw'.lastError[1] \in ServiceErrors
       /\ (a \in ops' /\ a \notin timers') =>
            /\ calls'[a].res = "timeout"
            /\ includes(cw'.lastError[1].message, "qua thoi gian")
            /\ includes(cw'.lastError[1].message, calls[a].model)
            /\ includes(cw'.lastError[1].message, ToString(cw.timeoutMs \div 1000))]_vars

C15_Witness ==
  /\ Len(calls) = 2
  /\ TimedOut(calls[1])
  /\ calls[2].res = "ok"
  /\ cw.outcome = Succeeded(calls[2].value)

\* C16: an attempt settles once: the awaited attempt has both its operation
\* and its timer pending, and once it is settled by one of them its result
\* is never changed by the other.
C16_SettlesOnce ==
  /\ [][\A i \in DOMAIN calls :
          calls[i].res # "pending" =>
            (calls'[i].res = calls[i].res /\ calls'[i].value = calls[i].value)]_vars
  /\ [](Awaited # 0 => (Awaited \in timers /\ Awaited \in ops))
  /\ [](\A i \in DOMAIN calls : calls[i].res = "ok" => i \notin timers)

C16_Witness ==
  /\ Len(calls) >= 2
  /\ TimedOut(calls[1])
  /\ 1 \notin ops
  /\ Last(calls).res = "ok"

\* C17: a pending timer of the guard belongs to the attempt that is awaited:
\* no timer is left scheduled once its attempt has settled.
C17_NoLeakedTimer ==
  \A i \in timers : i = Awaited /\ calls[i].res = "pending"

C17_Witness ==
  /\ Len(calls) >= 3
  /\ calls[1].res = "other"
  /\ calls[2].res = "timeout"
  /\ timers = {3}

(***************************************************************************)
(* The model fallback resolver                                             *)
(***************************************************************************)
Occurrences(seq, m) == Cardinality({i \in DOMAIN seq : seq[i] = m})

\* C18: with a preferred model P of the pool, the candidate list of the
\* invocation starts with P, holds every pool member exactly once and nothing
\* else, so it is as long as the pool.
C18_PreferredInPool ==
  (cw.pc # "idle" /\ store.selected_model \in PoolSet) =>
    /\ cw.models[1] = store.selected_model
    /\ \A m \in PoolSet : Occurrences(cw.models, m) = 1
    /\ \A i, j \in DOMAIN cw.models : cw.models[i] = cw.models[j] => i = j
    /\ \A i \in DOMAIN cw.models : cw.models[i] \in PoolSet
    /\ Len(cw.models) = Len(FALLBACK_MODELS)

C18_Witness ==
  /\ store.selected_model = "gemini-3-pro-preview"
  /\ cw.models = <<"gemini-3-pro-preview", "gemini-3-flash-preview", "gemini-2.5-flash">>
  /\ Len(calls) = 3

\* C19: with a preferred model P outside the pool, the candidate list is P
\* followed by the whole pool in pool order, and the first attempt is on P.
C19_PreferredOutsidePool ==
  (cw.pc # "idle" /\ store.selected_model \notin PoolSet \cup {Null, ""}) =>
    /\ cw.models = <<store.selected_model>> \o FALLBACK_MODELS
    /\ calls # <<>> => calls[1].model = store.selected_model

C19_Witness ==
  /\ store.selected_model = "gemini-1.5-pro"
  /\ Len(cw.models) = 4
  /\ Len(calls) = 4
  /\ calls[4].model = "gemini-2.5-flash"

\* C20: with no selected model stored (absent or empty), the preferred model
\* is gemini-3-flash-preview and the candidate list is the pool in pool order.
C20_DefaultSelection ==
  (cw.pc # "idle" /\ store.selected_model \in {Null, ""}) =>
    /\ cw.models[1] = "gemini-3-flash-preview"
    /\ cw.models = FALLBACK_MODELS
    /\ calls # <<>> => calls[1].model = "gemini-3-flash-preview"

C20_Witness ==
  /\ store.selected_model = ""
  /\ cw.models = FALLBACK_MODELS
  /\ calls # <<>>
  /\ calls[1].model = "gemini-3-flash-preview"

(***************************************************************************)
(* Properties of the settings, the builders and the evaluator's scores     *)
(***************************************************************************)
\* C21: the settings are read once per invocation: every attempt of an
\* invocation runs on the candidate list and with the credential that were
\* stored when the invocation started, even when the settings are saved while
\* it is in progress.
C21_SettingsReadOnce ==
  \A i \in DOMAIN calls :
    /\ calls[i].model = cw.models[calls[i].mi]
    /\ calls[i].key = calls[1].key

\* C22: with the default retry limit each candidate model is attempted at most
\* once and there is never a backoff wait, also when every attempt fails with
\* a quota error.
C22_RotationOnly ==
  /\ cw.pc # "backoff"
  /\ \A i \in DOMAIN calls :
       /\ calls[i].attempt = 0
       /\ calls[i].waited = 0
       /\ \A j \in DOMAIN calls : j # i => calls[j].mi # calls[i].mi /\ calls[j].model # calls[i].model
  /\ (calls # <<>> /\ \A i \in DOMAIN calls : QuotaFailed(calls[i])) =>
       /\ Len(calls) = Len(cw.models)
       /\ cw.pc = "done"
       /\ IsAggregate(cw.outcome.error[1])

C22_Witness ==
  /\ cw.pc = "done"
  /\ cw.maxRetriesPerModel = DefaultRetries
  /\ Len(calls) = Len(cw.models)
  /\ \A i \in DOMAIN calls : QuotaFailed(calls[i])

Scored(d) == ev.pc = "scored" /\ ev.raw[d].t = "number"

\* C23: whatever the raw score (absent, not a number, negative, below 1, from
\* 1 to 10, above 10, very large), the normalized score is a whole number of
\* tenths from 0 to 10.
C23_NormalizedRange ==
  ev.pc = "scored" => \A d \in Dimensions : ev.scores[d] \in 0..100

C23_Witness ==
  /\ Scored("pronunciation")
  /\ ev.raw.pronunciation.n = 250000
  /\ ev.scores.pronunciation = 100

\* C24 as stated: normalizing a normalized score changes nothing, for every
\* finite raw score x >= 0.
C24_Idempotent ==
  \A d \in Dimensions :
    (Scored(d) /\ ev.raw[d].n >= 0) => normalize(Tenths(ev.scores[d])) = {ev.scores[d]}

\* C24: normalizing a normalized score changes nothing when the normalized
\* score is 0 or at least 1; a normalized score strictly between 0 and 1 (the
\* raw scores from 0.005 to 0.095) is multiplied by 10 by a second pass.
C24_IdempotentOutsideUnitInterval ==
  \A d \in Dimensions :
    (Scored(d) /\ ev.raw[d].n >= 0) =>
      normalize(Tenths(ev.scores[d])) =
        IF 0 < ev.scores[d] /\ ev.scores[d] < 10 THEN {10 * ev.scores[d]} ELSE {ev.scores[d]}

C24_Witness ==
  /\ Scored("pronunciation")
  /\ ev.raw.pronunciation.n = 50
  /\ ev.scores.pronunciation = 5
  /\ normalize(Tenths(5)) = {50}

\* the scale of a raw number after the two rescaling rules, as a fraction
ScaleNum(n) == IF 0 < n /\ n < RawDen THEN 10 * n ELSE n

ScaleDen(n) == IF n > 10 * RawDen THEN 10 * RawDen ELSE RawDen

\* out tenths is the value num/den clamped to [0,10] and rounded to the
\* nearest tenth
NearestTenth(out, num, den) ==
  \/ out = 0 /\ 20 * num - den <= 0
  \/ out = 100 /\ 20 * num + den >= 200 * den
  \/ /\ out \in 0..100
     /\ 2 * den * out - 20 * num <= den
     /\ 20 * num - 2 * den * out <= den

\* C25: an absent score or one that is not a number gives 0; a score strictly
\* between 0 and 1 is multiplied by 10, one above 10 divided by 10, then the
\* result is clamped to [0,10] and rounded to the nearest tenth: 0.8 gives 8.0,
\* 85 gives 8.5, 7.3 gives 7.3, -1 gives 0.0.
C25_ScaleRules ==
  ev.pc = "scored" =>
    \A d \in Dimensions :
      LET n == ev.raw[d].n
          out == ev.scores[d]
      IN IF ev.raw[d].t # "number" THEN out = 0
         ELSE /\ NearestTenth(out, ScaleNum(n), ScaleDen(n))
              /\ n = 800 => out = 80
              /\ n = 85000 => out = 85
              /\ n = 7300 => out = 73
              /\ n = 0 - 1000 => out = 0

C25_Witness ==
  /\ Scored("pronunciation")
  /\ ev.raw.pronunciation.n = 800
  /\ ev.scores.pronunciation = 80

\* C26: the aggregate score is the mean of the six normalized scores rounded
\* to one decimal; it lies in [0,10] with no clamp of its own; for the scores
\* 9, 8, 7, 9, 8, 10 it is 8.5.
C26_AggregateIsMean ==
  ev.pc = "scored" =>
    /\ \A d \in Dimensions : ev.scores[d] \in normalize(ev.raw[d])
    /\ 6 * ev.score - SumOf(ev.scores) <= 3
    /\ SumOf(ev.scores) - 6 * ev.score <= 3
    /\ ev.score \in 0..100
    /\ (/\ ev.scores.pronunciation = 90 /\ ev.scores.fluency = 80 /\ ev.scores.intonation = 70
        /\ ev.scores.vocabulary = 90 /\ ev.scores.grammar = 80
        /\ ev.scores.taskFulfillment = 100) => ev.score = 85

C26_Witness ==
  /\ ev.pc = "scored"
  /\ ev.scores.pronunciation = 90 /\ ev.scores.fluency = 80 /\ ev.scores.intonation = 70
  /\ ev.scores.vocabulary = 90 /\ ev.scores.grammar = 80 /\ ev.scores.taskFulfillment = 100
  /\ ev.score = 85

\* the attempts whose request was answered with an empty text or a text that
\* is not the JSON asked for
AnsweredBadly(i) == calls[i].text \in {"", TruncatedJson}

\* C27: a script builder whose request is answered with an empty or malformed
\* text returns the empty default script from that attempt: it does not raise
\* and no further model is tried.
C27_MalformedScriptTolerated ==
  cw.fn \in ScriptBuilders =>
    \A i \in DOMAIN calls :
      AnsweredBadly(i) =>
        /\ calls[i].res = "ok"
        /\ i = Len(calls)
        /\ cw.outcome = Succeeded(DefaultScript)

\* C28: the evaluator returns a result from every attempt whose request was
\* answered; when the answer is empty or cannot be parsed, the six scores and
\* the aggregate score of the result are 0.
C28_EvaluatorAlwaysReturns ==
  cw.fn = "evaluatePresentation" =>
    \A i \in DOMAIN calls :
      calls[i].text # Null =>
        /\ calls[i].res = "ok"
        /\ i = Len(calls)
        /\ cw.outcome.kind = "ok"
        /\ AnsweredBadly(i) =>
             /\ \A d \in Dimensions : cw.outcome.value.scores[d] = 0
             /\ cw.outcome.value.score = 0

\* C29: every request of the voice synthesizer names the fixed synthesis
\* model, whatever candidate the attempt was handed; the attempts still follow
\* the candidate list, so while they fail the fixed model is requested once
\* for each candidate.
C29_FixedVoiceModel ==
  cw.fn = "generateTeacherVoice" =>
    /\ \A i \in DOMAIN calls :
         /\ calls[i].mi = i
         /\ calls[i].model = cw.models[i]
         /\ IF calls[i].key = Null THEN calls[i].request = Null ELSE calls[i].request = TTSModel
    /\ (cw.pc = "done" /\ cw.outcome.kind = "failed") => Len(calls) = Len(cw.models)

C29_Witness ==
  /\ cw.fn = "generateTeacherVoice"
  /\ cw.pc = "done"
  /\ cw.outcome.kind = "failed"
  /\ Len(calls) = 3
  /\ \A i \in DOMAIN calls : calls[i].request = TTSModel /\ calls[i].model = FALLBACK_MODELS[i]

\* C30: the synthesized voice is cached by its exact text and never evicted:
\* a synthesis that toggleTeacherVoice or the auto-play waited for stores its
\* buffer under its text; from then on toggleTeacherVoice(t) starts no
\* synthesis and, when it plays, plays the buffer stored for t; no entry is
\* ever removed.
C30_CachedVoiceReplayed ==
  [][/\ \A t \in Texts : app.audioCache[t] # <<>> => app'.audioCache[t] # <<>>
     /\ \A i \in JobIndices : \A o \in Outcomes("voice") :
          (VoiceSettled(i, o) /\ o.kind = "ok") => app'.audioCache[app.jobs[i].text] = o.value
     /\ \A t \in Texts :
          (ToggleTeacherVoice(t) /\ app.audioCache[t] # <<>>) =>
            /\ app'.jobs = app.jobs
            /\ app'.audioCache = app.audioCache
            /\ app.audioState # "playing" =>
                 /\ app'.sourceNode = app.audioCache[t]
                 /\ app'.audioState = "playing"]_vars

C30_Witness ==
  \E t \in Texts :
    /\ app.played = "cache"
    /\ app.audioCache[t] # <<>>
    /\ app.sourceNode = app.audioCache[t]
    /\ app.audioState = "playing"
    /\ app.jobs = <<>>

(***************************************************************************)
(* Properties of the App flow, the audio decoding and the retry frame      *)
(***************************************************************************)
\* the 16 bit number the bytes lo and hi stand for, low byte first
LittleEndian(lo, hi) == IF hi >= 128 THEN lo + 256 * hi - 65536 ELSE lo + 256 * hi

RECURSIVE Pow(_, _)
Pow(b, n) == IF n = 0 THEN 1 ELSE b * Pow(b, n - 1)

\* C33: the wait that follows the quota failure of attempt a (from 0) of a
\* model is 1500 ms * 2.5^a, whatever the retries spent on earlier models, and
\* it is longer than the wait before it on the same model.
C33_BackoffSchedule ==
  \A i \in DOMAIN calls :
    calls[i].waited > 0 =>
      /\ QuotaFailed(calls[i])
      /\ Pow(2, calls[i].attempt) * calls[i].waited = Pow(5, calls[i].attempt) * Ms(1500)
      /\ calls[i].attempt > 0 =>
           /\ calls[i - 1].mi = calls[i].mi
           /\ calls[i - 1].waited > 0
           /\ calls[i].waited > calls[i - 1].waited

C33_Witness ==
  /\ Len(calls) >= 4
  /\ calls[1].mi = 1 /\ calls[1].waited = Ms(1500)
  /\ calls[2].mi = 1 /\ calls[2].waited = Ms(3750)
  /\ calls[3].mi = 1 /\ calls[3].waited = 0
  /\ calls[4].mi = 2 /\ calls[4].waited = Ms(1500)

\* C39: an invocation with a retry limit of 0 or less never calls its
\* callback, for any model, and fails with the terminal aggregate error
\* although no error of an attempt was recorded.
C39_NoAttemptWithoutRetries ==
  (cw.pc # "idle" /\ cw.maxRetriesPerModel <= 0) =>
    /\ calls = <<>>
    /\ ops = {}
    /\ timers = {}
    /\ cw.pc = "done"
    /\ cw.lastError = <<>>
    /\ cw.outcome = Failed(AggregateError(<<>>))

C39_Witness ==
  /\ cw.pc = "done"
  /\ cw.maxRetriesPerModel < 0
  /\ Len(cw.models) >= 2
  /\ calls = <<>>
  /\ cw.outcome.kind = "failed"
  /\ cw.outcome.error[1].message = AggregatePrefix \o <<"undefined">> \o AggregateSuffix

\* line 478: the error screen, with the message and the retry button
ErrorScreen(a) == a.status = "ERROR" /\ a.appError # <<>>

\* a run of handleGenerate or handleEvaluate starts
Triggered == (\E withImage \in BOOLEAN : HandleGenerate(withImage)) \/ HandleEvaluate

Failures(stage) == {o \in Outcomes(stage) : o.kind = "failed"}

\* job i waits in the stage and what it waits for settles with the outcome
SettlesWith(i, stage, o) ==
  CASE stage = "prompt" -> PromptSettled(i, o)
    [] stage = "script" -> ScriptSettled(i, o)
    [] stage = "read" -> ReadSettled(i, o)
    [] stage = "evaluate" -> EvaluateSettled(i, o)
    [] OTHER -> FALSE

\* what a run of handleGenerate or handleEvaluate waits for fails
RunFails ==
  \E i \in DOMAIN app.jobs :
    /\ app.jobs[i].stage \in {"prompt", "script", "read", "evaluate"}
    /\ \E o \in Failures(app.jobs[i].stage) : SettlesWith(i, app.jobs[i].stage, o)

Settles(i) ==
  /\ app.jobs[i].stage \in {"prompt", "script", "read", "evaluate"}
  /\ \E o \in Outcomes(app.jobs[i].stage) : SettlesWith(i, app.jobs[i].stage, o)

\* C35: once the user has cancelled a generation or an evaluation, the
\* completion or the failure of its requests changes neither the status nor
\* the presentation, the result or the error message.
C35_CancelledRunIgnored ==
  [][\A i \in FlowJobs :
       (i \in DOMAIN app.jobs /\ app.jobs[i].cancelled /\ Settles(i)) =>
         /\ app'.status = app.status
         /\ app'.presentation = app.presentation
         /\ app'.result = app.result
         /\ app'.appError = app.appError]_vars

\* C36: whenever the status is ERROR there is an error message, and a step
\* that clears the message (retry, a save of the settings, the start of a
\* generation or an evaluation, a cancel) leaves the status other than ERROR.
C36_ErrorHasMessage ==
  /\ [](app.status = "ERROR" => app.appError # <<>>)
  /\ [][(app.appError # <<>> /\ app'.appError = <<>>) =>
          app'.status \in {"IDLE", "GENERATING", "EVALUATING", "REVIEWING"}]_vars
  /\ [][(app.status = "ERROR" /\ app'.appError = <<>>) => app'.status = "IDLE"]_vars

C36_Witness ==
  /\ app.status = "ERROR"
  /\ app.appError = EvaluateFallback
  /\ app.showSettings

\* C37: with the status READY, RECORDING, REVIEWING, EVALUATING or RESULT
\* there is a presentation, with RESULT there is a result, and a presentation
\* that was set is never taken away.
C37_PresentationBehindStatus ==
  /\ [](app.status \in {"READY", "RECORDING", "REVIEWING", "EVALUATING", "RESULT"} =>
          app.presentation # <<>>)
  /\ [](app.status = "RESULT" => app.result # <<>>)
  /\ [][app.presentation # <<>> => app'.presentation # <<>>]_vars

C37_Witness ==
  /\ app.status = "RESULT"
  /\ app.result # <<>>
  /\ app.presentation # <<>>
  /\ app.recordedBlob

\* a save of the dialog with a blank key
BlankSave ==
  \E typed \in TypedKeys : \E model \in ModelIds : trim(typed) = "" /\ SaveSettings(typed, model)

\* C38: a save with a blank key changes neither the stored key, the stored
\* model, the dialog nor the status; a save that stores a key stores the
\* trimmed, non-empty key with the model selected in the dialog; so the stored
\* key, when there is one, is never empty.
C38_NoEmptyCredential ==
  /\ [](store.gemini_api_key # Null =>
          (store.gemini_api_key # "" /\ trim(store.gemini_api_key) = store.gemini_api_key))
  /\ [][BlankSave =>
          /\ store' = store
          /\ app'.showSettings = app.showSettings
          /\ app'.status = app.status
          /\ app'.apiKey = app.apiKey
          /\ app'.selectedModel = app.selectedModel]_vars
  /\ [][store'.gemini_api_key \notin {store.gemini_api_key, Null} =>
          \E typed \in TypedKeys :
            /\ trim(typed) # ""
            /\ store' = [gemini_api_key |-> trim(typed), selected_model |-> app'.selectedModel]
            /\ app'.apiKey = trim(typed)
            /\ store'.selected_model \in ModelIds]_vars

C38_Witness ==
  /\ app.alert = "key"
  /\ store.gemini_api_key = "AIza-new"
  /\ store.selected_model = "gemini-3-pro-preview"
  /\ ~app.showSettings

\* C34: in the result of evaluatePresentation each of the six dimension
\* fields is normalize of the raw field of the same name and of nothing else,
\* and the computed dimensions, the computed score and the requested level
\* stand in the result in place of the raw fields of the same names.
C34_ComputedFieldsOverride ==
  ev.pc = "scored" =>
    /\ \A d \in Dimensions : ev.result[d] \in {Tenths(k) : k \in normalize(ev.raw[d])}
    /\ ev.result.score \in {Tenths(s) : s \in RoundMean(SumOf(ev.scores))}
    /\ ev.result.perceivedLevel = Str(ev.level)

C34_Witness ==
  /\ ev.pc = "scored"
  /\ ev.raw.pronunciation = Num(800) /\ ev.result.pronunciation = Num(8000)
  /\ ev.raw.fluency = Num(7300) /\ ev.result.fluency = Num(7300)
  /\ ev.other.score = Num(3000) /\ ev.result.score # Num(3000)
  /\ ev.other.perceivedLevel = Str(3) /\ ev.level = 1 /\ ev.result.perceivedLevel = Str(1)
  /\ ev.other.feedback = Str(3) /\ ev.result.feedback = Str(3)

====
